---------------------------- MODULE Spec2Model ----------------------------
(***************************************************************************)
(* A model of src/JuliaInterface.c, the kernel module that lets GAP (the   *)
(* host) hold Julia (the guest) values.                                     *)
(*                                                                          *)
(*  - the anchor table: the Julia arrays GAP_MEMORY_STORAGE (slots) and    *)
(*    GAP_MEMORY_STORAGE_INTS (stack of free slot indices);                *)
(*  - the value handles (T_JULIA_OBJ bags) made by NewJuliaObj and          *)
(*    released by the free function JuliaObjFreeFunc;                       *)
(*  - the converters JuliaBox_internal and JuliaUnbox_internal;            *)
(*  - the call surface JuliaFunction, JuliaCallFunc0Arg..3Arg,              *)
(*    JuliaEvalString, JuliaUnbox, JuliaBox.                                *)
(*                                                                          *)
(* Values are records [k |-> kind, v |-> payload].  Machine integers are   *)
(* bit vectors (sequences of 0/1, least significant bit first) of their    *)
(* real width, so that shifts and casts lose exactly the bits the C code   *)
(* loses.  Slot indices are small and are kept as naturals.                *)
(***************************************************************************)
EXTENDS Integers, Sequences, FiniteSets, Bags, TLC

(***************************************************************************)
(* Bounds of the model.                                                     *)
(***************************************************************************)
\* largest number of value handles (T_JULIA_OBJ bags) alive at one time
MaxHandles == 3
\* longest string drawn as a conversion input
MaxStrLen == 2
\* longest list drawn as a conversion input
MaxListLen == 2
\* deepest extra nesting of the lists drawn as conversion inputs
MaxDepth == 2

VARIABLES
    GAP_MEMORY_STORAGE,       \* Julia Vector{Any}: the anchor slots
    GAP_MEMORY_STORAGE_INTS,  \* Julia Vector{Int64}: stack of free indices
    julia_objs,               \* the T_JULIA_OBJ bags alive (a multiset: a bag
                              \* has no name but its address)
    pc,                       \* position of the call in progress
    op,                       \* exported function in progress
    arg,                      \* its argument
    result,                   \* its return value
    C,                        \* NewJuliaObj: the jl_value_t* being wrapped
    o,                        \* NewJuliaObj: the bag under construction
    position_jl,              \* get_next_julia_position: the popped index
    position,                 \* get_next_julia_position: its unboxed value
    collected,                \* guest values the guest collector reclaimed
                              \* while the call in progress still used them
    entry,                    \* the two arrays as they were when the running
                              \* get_next_julia_position was entered
    Main_INTS,                \* what the name GAP_MEMORY_STORAGE_INTS is bound
                              \* to in the guest module Main
    released,                 \* history: the indices released and not handed
                              \* out since, in the order of their release
    peak                      \* history: the largest number of value handles
                              \* that were alive at one time

vars == <<GAP_MEMORY_STORAGE, GAP_MEMORY_STORAGE_INTS, julia_objs, pc, op, arg,
          result, C, o, position_jl, position, collected, entry, Main_INTS,
          released, peak>>

(***************************************************************************)
(* Bit vectors.                                                             *)
(***************************************************************************)
Zeros(n) == [i \in 1..n |-> 0]

\* the n-bit vector whose only set bit is bit i (1 = least significant)
OneAt(n, i) == [j \in 1..n |-> IF j = i THEN 1 ELSE 0]

\* the n-bit vector whose i low bits are set
OnesBelow(n, i) == [j \in 1..n |-> IF j <= i THEN 1 ELSE 0]

\* C conversion of a signed integer to a wider signed type
SignExtend(b, n) == [j \in 1..n |-> IF j <= Len(b) THEN b[j] ELSE b[Len(b)]]

\* C conversion of an unsigned integer to a wider type
ZeroExtend(b, n) == [j \in 1..n |-> IF j <= Len(b) THEN b[j] ELSE 0]

\* the boundary patterns of width n: 0, 2^i, 2^i - 1
Patterns(n) ==
    {OneAt(n, i) : i \in 1..n} \cup {OnesBelow(n, i) : i \in 0..n}

(***************************************************************************)
(* Guest (Julia) values.                                                    *)
(***************************************************************************)
JlNull == [k |-> "NULL", v |-> 0]

JlNothing == [k |-> "Nothing", v |-> 0]

JlInt(kind, bits) == [k |-> kind, v |-> bits]

JlFloat64(x) == [k |-> "Float64", v |-> x]

JlFloat32(x) == [k |-> "Float32", v |-> x]

JlString(bytes) == [k |-> "String", v |-> bytes]

JlBool(b) == [k |-> "Bool", v |-> b]

JlArray(elems) == [k |-> "Array", v |-> elems]

SignedKinds == {"Int8", "Int16", "Int32", "Int64"}

UnsignedKinds == {"UInt8", "UInt16", "UInt32", "UInt64"}

IntKinds == SignedKinds \cup UnsignedKinds

Width(kind) ==
    CASE kind \in {"Int8", "UInt8"} -> 8
      [] kind \in {"Int16", "UInt16"} -> 16
      [] kind \in {"Int32", "UInt32"} -> 32
      [] kind \in {"Int64", "UInt64"} -> 64

\* jl_box_int64( 0 ): the value an empty slot holds
Sentinel == JlInt("Int64", Zeros(64))

(***************************************************************************)
(* Host (GAP) values.                                                       *)
(***************************************************************************)
\* an immediate integer: the 64-bit word of the Obj itself
IntObj(word) == [k |-> "IntObj", v |-> word]

\* T_INTPOS / T_INTNEG: a large integer, which is a bag, not an immediate
BigInt == [k |-> "BigInt", v |-> 0]

MacFloat(x) == [k |-> "MacFloat", v |-> x]

HString(bytes) == [k |-> "HString", v |-> bytes]

True == [k |-> "True", v |-> 0]

False == [k |-> "False", v |-> 0]

Fail == [k |-> "Fail", v |-> 0]

Perm2(points) == [k |-> "Perm2", v |-> points]

Perm4(points) == [k |-> "Perm4", v |-> points]

PList(elems) == [k |-> "PList", v |-> elems]

\* the Obj 0 that JuliaEvalString and JuliaSetVal return
NullObj == [k |-> "NullObj", v |-> 0]

\* INTOBJ_INT(i) = (Obj)(((UInt)(Int)(i) << 2) + 0x01)
INTOBJ_INT(word) == <<1, 0>> \o SubSeq(word, 1, 62)

\* INT_INTOBJ(o) = ((Int)(o)) >> 2
INT_INTOBJ(word) == SubSeq(word, 3, 64) \o <<word[64], word[64]>>

\* the machine word (Int) a jl_unbox_<kind> result converts to
UnboxToInt(x) ==
    IF x.k \in SignedKinds THEN SignExtend(x.v, 64) ELSE ZeroExtend(x.v, 64)

\* CSTR_STRING read as a C string: the bytes before the first NUL
CSTR_STRING(bytes) ==
    LET nul == {i \in 1..Len(bytes) : bytes[i] = 0}
    IN  IF nul = {} THEN bytes
        ELSE SubSeq(bytes, 1, (CHOOSE i \in nul : \A j \in nul : i <= j) - 1)

(***************************************************************************)
(* The converters.                                                          *)
(***************************************************************************)
RECURSIVE JuliaUnbox_internal(_)
JuliaUnbox_internal(julia_obj) ==
    CASE julia_obj.k \in IntKinds -> IntObj(INTOBJ_INT(UnboxToInt(julia_obj)))
      [] julia_obj.k \in {"Float64", "Float32"} -> MacFloat(julia_obj.v)
      [] julia_obj.k = "String" -> HString(julia_obj.v)
      [] julia_obj.k = "Bool" -> IF julia_obj.v = 0 THEN False ELSE True
      [] julia_obj.k = "Array" ->
            PList([i \in 1..Len(julia_obj.v) |->
                      JuliaUnbox_internal(julia_obj.v[i])])
      [] OTHER -> Fail

\* line 194: jl_arrayref of an element that was never assigned (a NULL
\* pointer in the array) throws in the guest, outside of any jl_call
RECURSIVE HasUndefElement(_)
HasUndefElement(julia_obj) ==
    /\ julia_obj.k = "Array"
    /\ \E i \in 1..Len(julia_obj.v) :
          julia_obj.v[i] = JlNull \/ HasUndefElement(julia_obj.v[i])

RECURSIVE JuliaBox_internal(_)
JuliaBox_internal(obj) ==
    CASE obj.k = "IntObj" -> JlInt("Int64", INT_INTOBJ(obj.v))
      [] obj.k = "MacFloat" -> JlFloat64(obj.v)
      [] obj.k = "HString" -> JlString(CSTR_STRING(obj.v))
      [] obj.k = "True" -> JlBool(1)
      [] obj.k = "False" -> JlBool(0)
      [] obj.k = "Perm2" ->
            JlArray([i \in 1..Len(obj.v) |-> JlInt("UInt16", obj.v[i])])
      [] obj.k = "Perm4" ->
            JlArray([i \in 1..Len(obj.v) |-> JlInt("UInt32", obj.v[i])])
      [] obj.k = "PList" ->
            JlArray([i \in 1..Len(obj.v) |-> JuliaBox_internal(obj.v[i])])
      [] OTHER -> JlNull

(***************************************************************************)
(* The anchor table and the value handles.                                  *)
(***************************************************************************)
\* a T_JULIA_OBJ bag: ADDR_OBJ(o)[0] is the guest value, ADDR_OBJ(o)[1] the
\* index of its slot (0 while NewJuliaObj has not stored it yet)
NewBag(guest, index) == [obj |-> guest, pos |-> index]

\* no bag: the Obj 0
NoBag == [obj |-> JlNull, pos |-> 0]

NoArg == [k |-> "None", v |-> 0]

NoResult == [k |-> "None", v |-> 0]

HandleArgs(ids) == [k |-> "Handles", v |-> ids]

\* the string given to JuliaEvalString: a guest expression, named here by
\* what jl_eval_string gives for it (NULL when evaluating it throws)
GuestExpr(value) == [k |-> "Expr", v |-> value]

\* the Obj of a value handle / of a function handle
JuliaObj(bag) == [k |-> "JuliaObj", v |-> bag]

JuliaFunc(name) == [k |-> "JuliaFunc", v |-> name]

NoEntry == [storage |-> <<>>, ints |-> <<>>, released |-> <<>>]

Range(seq) == {seq[i] : i \in 1..Len(seq)}

Last(seq) == seq[Len(seq)]

Front(seq) == SubSeq(seq, 1, Len(seq) - 1)

\* seq without the last occurrence of x
WithoutLast(seq, x) ==
    LET at == {i \in 1..Len(seq) : seq[i] = x}
    IN  IF at = {} THEN seq
        ELSE LET m == CHOOSE i \in at : \A j \in at : j <= i
             IN  SubSeq(seq, 1, m - 1) \o SubSeq(seq, m + 1, Len(seq))

Max(a, b) == IF a >= b THEN a ELSE b

\* the value handles that exist and are complete
LiveHandles == BagToSet(julia_objs)

\* the handles the call in progress holds as arguments: reachable, so the
\* host collector does not free them
Pinned == IF arg.k = "Handles" THEN Range(arg.v) ELSE {}

jl_setindex_zero_based(A, x, i) ==
    IF i - 1 \in 1..Len(A) THEN [A EXCEPT ![i - 1] = x] ELSE A

jl_setindex_deleteat(A, x, i) ==
    IF i \in 1..Len(A) THEN SubSeq(A, 1, i - 1) \o SubSeq(A, i + 1, Len(A))
    ELSE A

\* setindex!( A, x, i ) through jl_call3: an index outside A throws in the
\* guest, jl_call3 swallows the exception, and A is left as it was
jl_setindex(A, x, i) == IF i \in 1..Len(A) THEN [A EXCEPT ![i] = x] ELSE A

julia_array_push_front(A, x) == <<x>> \o A

\* line 363: push!( A, x )
julia_array_push(A, x) == Append(A, x)

GrowthNeeded_always(len) == TRUE

GrowthNeeded_never(len) == FALSE

\* line 28: length(GAP_MEMORY_STORAGE_INTS) == 0
GrowthNeeded(len) == len = 0

NextFreeIndex_same(p) == p

\* line 30: position + 1
NextFreeIndex(p) == p + 1

FreedEntry_keep(old) == old

\* line 91: what JuliaObjFreeFunc writes over the slot's entry
FreedEntry(old) == Sentinel

BoxFailed_never(julia_ptr) == FALSE

\* line 287: julia_ptr == 0
BoxFailed(julia_ptr) == julia_ptr = JlNull

jl_is_nothing_never(v) == FALSE

\* line 125: jl_is_nothing( result ), a comparison with jl_nothing (NULL is
\* not nothing)
jl_is_nothing(v) == v = JlNothing

\* The guest collector may run inside any call into the guest.  It reclaims
\* what no root reaches; the only roots this layer provides are the entries
\* of GAP_MEMORY_STORAGE, so the value in flight is reclaimable unless some
\* slot holds it.
GuestCollectable ==
    IF C # JlNull /\ C \notin Range(GAP_MEMORY_STORAGE) THEN {C} ELSE {}

GuestGC == collected' \in {collected, collected \cup GuestCollectable}

(***************************************************************************)
(* The binding of the name GAP_MEMORY_STORAGE_INTS in Main.  pop! and      *)
(* push! get the array through the C global of line 22; line 28 evaluates  *)
(* the name.                                                                *)
(***************************************************************************)
\* line 366: the name is bound to the array the C global points to
TheFreeList == [k |-> "FreeList", v |-> 0]

\* Julia's length( x ) has a method for strings, arrays and numbers
HasLength(x) == x = TheFreeList \/ x.k # "Nothing"

jl_length(x) ==
    CASE x = TheFreeList -> Len(GAP_MEMORY_STORAGE_INTS)
      [] x.k \in {"String", "Array"} -> Len(x.v)
      [] OTHER -> 1

\* line 280: jl_set_global( jl_main_module, jl_symbol( name ), julia_obj ),
\* as far as the one name this file reads is concerned
jl_set_global(name, julia_obj) ==
    IF name = "GAP_MEMORY_STORAGE_INTS" THEN julia_obj ELSE Main_INTS

(***************************************************************************)
(* Inputs of the call surface.                                              *)
(***************************************************************************)
FuncNames == {"identity"}

\* what a guest expression or a guest callable may evaluate to
GuestResults ==
    {JlNothing, JlString(<<65>>)}

\* jl_eval_string and jl_call0..3 catch a guest exception and return NULL
GuestThrows == {JlNull}

\* the host values handed to JuliaBox
BoxArgs ==
    {IntObj(INTOBJ_INT(Zeros(64))), BigInt, PList(<<BigInt>>),
     PList(<<True, PList(<<False>>)>>)}

\* names handed to JuliaSetVal: a name of the user's, and the name line 366
\* gave to the free list
UserNames == {"x"}

TableNames == {"GAP_MEMORY_STORAGE_INTS"}

Init ==
    /\ GAP_MEMORY_STORAGE = <<>>
    /\ GAP_MEMORY_STORAGE_INTS = <<1>>
    /\ julia_objs = EmptyBag
    /\ pc = "idle"
    /\ op = "none"
    /\ arg = NoArg
    /\ result = NoResult
    /\ C = JlNull
    /\ o = NoBag
    /\ position_jl = 0
    /\ position = 0
    /\ collected = {}
    /\ entry = NoEntry
    /\ Main_INTS = TheFreeList
    /\ released = <<>>
    /\ peak = 0

\* NewJuliaObj( guest ) is entered: the value is new, the bag does not exist
EnterNewJuliaObj(guest) ==
    /\ BagCardinality(julia_objs) < MaxHandles
    /\ C' = guest
    /\ collected' = collected \ {guest}
    /\ pc' = "NewBag"
    /\ result' = NoResult
    /\ UNCHANGED <<GAP_MEMORY_STORAGE, GAP_MEMORY_STORAGE_INTS, julia_objs, o,
                   position_jl, position, entry, Main_INTS, released, peak>>

\* an exported function returns without making a handle
ReturnValue(value) ==
    /\ result' = value
    /\ pc' = "returned"
    /\ UNCHANGED <<GAP_MEMORY_STORAGE, GAP_MEMORY_STORAGE_INTS, julia_objs, C, o,
                   position_jl, position, collected, entry, Main_INTS,
                   released, peak>>

JuliaFunction ==
    /\ pc = "idle"
    /\ \E string \in FuncNames :
          /\ op' = "JuliaFunction"
          /\ arg' = NoArg
          /\ ReturnValue(JuliaFunc(string))

\* the guest callable is arbitrary: it may return a new value or any of its
\* arguments, or throw
CallResults(args) ==
    GuestResults \cup {args[i].obj : i \in 1..Len(args)} \cup GuestThrows

JuliaCallFunc(name, args) ==
    /\ pc = "idle"
    /\ op' = name
    /\ arg' = HandleArgs(args)
    /\ \E r \in CallResults(args) : EnterNewJuliaObj(r)

JuliaCallFunc0Arg == JuliaCallFunc("JuliaCallFunc0Arg", <<>>)

JuliaCallFunc1Arg ==
    \E a \in LiveHandles : JuliaCallFunc("JuliaCallFunc1Arg", <<a>>)

JuliaCallFunc2Arg ==
    \E a1, a2 \in LiveHandles : JuliaCallFunc("JuliaCallFunc2Arg", <<a1, a2>>)

JuliaCallFunc3Arg ==
    \E a1, a2, a3 \in LiveHandles :
        JuliaCallFunc("JuliaCallFunc3Arg", <<a1, a2, a3>>)

JuliaEvalString ==
    /\ pc = "idle"
    /\ op' = "JuliaEvalString"
    /\ \E r \in GuestResults \cup GuestThrows :
          /\ arg' = GuestExpr(r)
          /\ IF ~jl_is_nothing(r) THEN EnterNewJuliaObj(r)
             ELSE ReturnValue(NullObj)

\* the uncaught guest exception ends the process
Crash ==
    /\ pc' = "crash"
    /\ UNCHANGED <<GAP_MEMORY_STORAGE, GAP_MEMORY_STORAGE_INTS, julia_objs,
                   result, C, o, position_jl, position, collected, entry,
                   Main_INTS, released, peak>>

JuliaUnbox ==
    /\ pc = "idle"
    /\ \E h \in LiveHandles :
          /\ op' = "JuliaUnbox"
          /\ arg' = HandleArgs(<<h>>)
          /\ IF HasUndefElement(h.obj) THEN Crash
             ELSE ReturnValue(JuliaUnbox_internal(h.obj))

JuliaBox ==
    /\ pc = "idle"
    /\ \E obj \in BoxArgs :
          LET julia_ptr == JuliaBox_internal(obj)
          IN  /\ op' = "JuliaBox"
              /\ arg' = obj
              /\ IF BoxFailed(julia_ptr) THEN ReturnValue(Fail)
                 ELSE EnterNewJuliaObj(julia_ptr)

\* lines 276-282.  The binding roots the value in the guest; of all names,
\* the model follows the one this file reads back
JuliaSetVal(names) ==
    /\ pc = "idle"
    /\ \E name \in names, julia_val \in LiveHandles :
          /\ op' = "JuliaSetVal"
          /\ arg' = HandleArgs(<<julia_val>>)
          /\ Main_INTS' = jl_set_global(name, julia_val.obj)
    /\ result' = NullObj
    /\ pc' = "returned"
    /\ UNCHANGED <<GAP_MEMORY_STORAGE, GAP_MEMORY_STORAGE_INTS, julia_objs, C, o,
                   position_jl, position, collected, entry, released, peak>>

JuliaSetValUserName == JuliaSetVal(UserNames)

JuliaSetValTableName == JuliaSetVal(TableNames)

\* lines 80-81: NewBag, SET_JULIA_OBJ
NewJuliaObj_NewBag ==
    /\ pc = "NewBag"
    /\ o' = NewBag(C, 0)
    /\ pc' = "pop"
    /\ UNCHANGED <<GAP_MEMORY_STORAGE, GAP_MEMORY_STORAGE_INTS, julia_objs, op,
                   arg, result, C, position_jl, position, collected, entry,
                   Main_INTS, released, peak>>

\* Once the name is bound to something else, nothing in the guest reaches
\* the free-list array any more: the guest collector may have reclaimed it,
\* and the C global of line 22 then dangles.
FreeListMayBeGone == IF Main_INTS = TheFreeList THEN {FALSE} ELSE {FALSE, TRUE}

\* lines 26-27: pop!, jl_unbox_int64.  pop! of an empty array throws, jl_call1
\* then returns NULL and jl_unbox_int64 dereferences it.  (int position keeps
\* the low 32 bits of the index; every index here is far below 2^31.)
get_next_julia_position_pop ==
    /\ pc = "pop"
    /\ entry' = [storage |-> GAP_MEMORY_STORAGE,
                 ints |-> GAP_MEMORY_STORAGE_INTS,
                 released |-> released]
    /\ \E gone \in FreeListMayBeGone :
          IF gone \/ GAP_MEMORY_STORAGE_INTS = <<>>
          THEN /\ pc' = "segfault"
               /\ UNCHANGED <<GAP_MEMORY_STORAGE_INTS, position_jl, position,
                              released>>
          ELSE /\ position_jl' = Last(GAP_MEMORY_STORAGE_INTS)
               /\ position' = position_jl'
               /\ GAP_MEMORY_STORAGE_INTS' = Front(GAP_MEMORY_STORAGE_INTS)
               /\ released' = WithoutLast(released, position_jl')
               /\ pc' = "length"
    /\ GuestGC
    /\ UNCHANGED <<GAP_MEMORY_STORAGE, julia_objs, op, arg, result, C, o,
                   Main_INTS, peak>>

\* line 28: jl_eval_string("length(GAP_MEMORY_STORAGE_INTS)").  A value with
\* no length method makes jl_eval_string return NULL, which jl_unbox_int64
\* dereferences.
get_next_julia_position_length ==
    /\ pc = "length"
    /\ pc' = IF ~HasLength(Main_INTS) THEN "segfault"
             ELSE IF GrowthNeeded(jl_length(Main_INTS)) THEN "push_storage"
             ELSE "store"
    /\ GuestGC
    /\ UNCHANGED <<GAP_MEMORY_STORAGE, GAP_MEMORY_STORAGE_INTS, julia_objs, op, arg,
                   result, C, o, position_jl, position, entry, Main_INTS,
                   released, peak>>

\* line 29: push!( GAP_MEMORY_STORAGE, 0 )
get_next_julia_position_push_storage ==
    /\ pc = "push_storage"
    /\ GAP_MEMORY_STORAGE' = julia_array_push(GAP_MEMORY_STORAGE, Sentinel)
    /\ pc' = "push_ints"
    /\ GuestGC
    /\ UNCHANGED <<GAP_MEMORY_STORAGE_INTS, julia_objs, op, arg, result, C, o,
                   position_jl, position, entry, Main_INTS, released, peak>>

\* lines 30-31: jl_box_int64( position + 1 ), push!( GAP_MEMORY_STORAGE_INTS, . )
get_next_julia_position_push_ints ==
    /\ pc = "push_ints"
    /\ GAP_MEMORY_STORAGE_INTS' =
          julia_array_push(GAP_MEMORY_STORAGE_INTS, NextFreeIndex(position))
    /\ pc' = "store"
    /\ GuestGC
    /\ UNCHANGED <<GAP_MEMORY_STORAGE, julia_objs, op, arg, result, C, o,
                   position_jl, position, entry, Main_INTS, released, peak>>

\* lines 33, 83: return position_jl; ADDR_OBJ(o)[1] = input_position_jl
NewJuliaObj_store ==
    /\ pc = "store"
    /\ o' = [o EXCEPT !.pos = position_jl]
    /\ pc' = "setindex"
    /\ UNCHANGED <<GAP_MEMORY_STORAGE, GAP_MEMORY_STORAGE_INTS, julia_objs, op,
                   arg, result, C, position_jl, position, collected, entry,
                   Main_INTS, released, peak>>

\* lines 84-85: setindex!( GAP_MEMORY_STORAGE, C, input_position_jl ); return o
\* (jl_call3 roots its arguments, so C is safe inside this call).  When the
\* guest threw, C is NULL: the method lookup inside jl_call3 reads the type
\* tag of every argument and faults on it.
NewJuliaObj_setindex ==
    /\ pc = "setindex"
    /\ IF C = JlNull
       THEN /\ pc' = "crash"
            /\ UNCHANGED <<GAP_MEMORY_STORAGE, julia_objs, result, o, peak>>
       ELSE /\ GAP_MEMORY_STORAGE' =
                  jl_setindex(GAP_MEMORY_STORAGE, C, position_jl)
            /\ julia_objs' = julia_objs (+) SetToBag({o})
            /\ peak' = Max(peak, BagCardinality(julia_objs'))
            /\ result' = JuliaObj(o)
            /\ o' = NoBag
            /\ pc' = "returned"
    /\ UNCHANGED <<GAP_MEMORY_STORAGE_INTS, op, arg, C, position_jl, position,
                   collected, entry, Main_INTS, released>>

\* the caller has the return value; the frame is gone
Return ==
    /\ pc = "returned"
    /\ pc' = "idle"
    /\ op' = "none"
    /\ arg' = NoArg
    /\ result' = NoResult
    /\ C' = JlNull
    /\ position_jl' = 0
    /\ position' = 0
    /\ entry' = NoEntry
    /\ collected' = {}
    /\ UNCHANGED <<GAP_MEMORY_STORAGE, GAP_MEMORY_STORAGE_INTS, julia_objs, o,
                   Main_INTS, released, peak>>

\* lines 88-93.  The host collector calls it for a bag nothing reaches; it
\* collects only inside a host allocation: between two calls of the surface,
\* or inside the NewBag of NewJuliaObj.  Its calls into the guest are guest
\* collection points as well.
JuliaObjFreeFunc(val) ==
    /\ pc \in {"idle", "NewBag"}
    /\ val \in LiveHandles \ Pinned
    /\ LET list_number == val.pos
       IN  /\ GAP_MEMORY_STORAGE' =
                 jl_setindex(GAP_MEMORY_STORAGE, FreedEntry(val.obj),
                             list_number)
           /\ GAP_MEMORY_STORAGE_INTS' =
                 julia_array_push(GAP_MEMORY_STORAGE_INTS, list_number)
           /\ released' = Append(released, list_number)
           /\ julia_objs' = julia_objs (-) SetToBag({val})
    /\ GuestGC
    /\ UNCHANGED <<pc, op, arg, result, C, o, position_jl, position, entry,
                   Main_INTS, peak>>

Finalize == \E val \in LiveHandles : JuliaObjFreeFunc(val)

Next ==
    \/ JuliaFunction
    \/ JuliaCallFunc0Arg
    \/ JuliaCallFunc1Arg
    \/ JuliaCallFunc2Arg
    \/ JuliaCallFunc3Arg
    \/ JuliaEvalString
    \/ JuliaUnbox
    \/ JuliaBox
    \/ JuliaSetValUserName
    \/ NewJuliaObj_NewBag
    \/ get_next_julia_position_pop
    \/ get_next_julia_position_length
    \/ get_next_julia_position_push_storage
    \/ get_next_julia_position_push_ints
    \/ NewJuliaObj_store
    \/ NewJuliaObj_setindex
    \/ Return
    \/ Finalize

Spec == Init /\ [][Next]_vars

\* the same program with no restriction on the name given to JuliaSetVal,
\* as the code has none
NextAnyName == Next \/ JuliaSetValTableName

SpecAnyName == Init /\ [][NextAnyName]_vars

(***************************************************************************)
(* The converters on their own: an input is drawn, boxed and unboxed.       *)
(***************************************************************************)
SeqsUpTo(S, n) == UNION {[1..m -> S] : m \in 0..n}

Bytes == {0, 65}

FloatSamples == {0, 1}

HostScalars ==
    {IntObj(INTOBJ_INT(w)) : w \in Patterns(64)}
    \cup {MacFloat(x) : x \in FloatSamples}
    \cup {HString(b) : b \in SeqsUpTo(Bytes, MaxStrLen)}
    \cup {True, False, BigInt,
          Perm2(<<OneAt(16, 1), Zeros(16)>>),
          Perm4(<<OneAt(32, 1), Zeros(32)>>)}

ListElems ==
    {IntObj(INTOBJ_INT(OneAt(64, 3))), MacFloat(1), HString(<<65>>), True,
     BigInt}

RECURSIVE Nested(_, _)
Nested(S, d) ==
    IF d = 0 THEN S
    ELSE LET inner == Nested(S, d - 1)
         IN  inner \cup {PList(<<x>>) : x \in inner}
                   \cup {PList(<<True, x>>) : x \in inner}

HostInputs ==
    HostScalars
    \cup Nested({PList(l) : l \in SeqsUpTo(ListElems, MaxListLen)}, MaxDepth)

GuestInputs ==
    UNION {{JlInt(kind, b) : b \in Patterns(Width(kind))} : kind \in IntKinds}
    \cup {JlNothing, JlFloat32(1), JlArray(<<JlNothing>>),
          JlArray(<<JlBool(1), JlArray(<<JlNothing>>)>>)}

InitConv ==
    /\ GAP_MEMORY_STORAGE = <<>>
    /\ GAP_MEMORY_STORAGE_INTS = <<1>>
    /\ julia_objs = EmptyBag
    /\ op = "none"
    /\ result = NoResult
    /\ o = NoBag
    /\ position_jl = 0
    /\ position = 0
    /\ collected = {}
    /\ entry = NoEntry
    /\ Main_INTS = TheFreeList
    /\ released = <<>>
    /\ peak = 0
    /\ \/ pc = "box" /\ arg \in HostInputs /\ C = JlNull
       \/ pc = "unbox" /\ arg = NoArg /\ C \in GuestInputs

\* lines 286-288, without the handle
ConvBox ==
    /\ pc = "box"
    /\ C' = JuliaBox_internal(arg)
    /\ IF BoxFailed(C') THEN result' = Fail /\ pc' = "done"
       ELSE result' = NoResult /\ pc' = "unbox"
    /\ UNCHANGED <<GAP_MEMORY_STORAGE, GAP_MEMORY_STORAGE_INTS, julia_objs, op,
                   arg, o, position_jl, position, collected, entry, Main_INTS,
                   released, peak>>

\* line 209
ConvUnbox ==
    /\ pc = "unbox"
    /\ IF HasUndefElement(C) THEN result' = NoResult /\ pc' = "crash"
       ELSE result' = JuliaUnbox_internal(C) /\ pc' = "done"
    /\ UNCHANGED <<GAP_MEMORY_STORAGE, GAP_MEMORY_STORAGE_INTS, julia_objs, op,
                   arg, C, o, position_jl, position, collected, entry,
                   Main_INTS, released, peak>>

NextConv == ConvBox \/ ConvUnbox

SpecConv == InitConv /\ [][NextConv]_vars

(***************************************************************************)
(* Properties of the anchor table.                                          *)
(***************************************************************************)
\* the slot of handle h holds the guest value of handle h
HandleBound(h) ==
    /\ h.pos \in 1..Len(GAP_MEMORY_STORAGE)
    /\ GAP_MEMORY_STORAGE[h.pos] = h.obj

\* C1.  Anchor liveness: for every value handle that was created and is not
\* yet finalized, the entry of GAP_MEMORY_STORAGE at the handle's index is the
\* guest value stored in the handle.
C1_AnchorLiveness == \A h \in LiveHandles : HandleBound(h)

\* two handles with different values are alive after a finalization
C1_Witness ==
    /\ pc = "idle"
    /\ Len(GAP_MEMORY_STORAGE_INTS) >= 2
    /\ \E h1, h2 \in LiveHandles : h1.obj # h2.obj

\* the calls into the guest that do not take C as an argument: the guest
\* collector may run in each, and nothing but a slot protects C there
GuestCollectionPoints == {"pop", "length", "push_storage", "push_ints"}

\* C2.  A handle-wrapped guest value is anchored at every guest collection
\* point of the handle's lifetime: no call into the guest is made while the
\* handle under construction holds a value that bind has not yet written into
\* its slot, and no value a handle holds is reclaimed by the guest collector.
C2_AnchoredAtCollectionPoints ==
    /\ pc \in GuestCollectionPoints => (o = NoBag \/ HandleBound(o))
    /\ o # NoBag => o.obj \notin collected

\* C3.  Slot ownership is exclusive: no two live value handles hold the same
\* index, and every entry of storage that is not the sentinel is owned by
\* exactly one live handle (also when the index was released and reused).
C3_SlotOwnershipExclusive ==
    /\ \A h \in LiveHandles : CopiesIn(h, julia_objs) = 1
    /\ \A h1, h2 \in LiveHandles : h1 # h2 => h1.pos # h2.pos
    /\ \A i \in 1..Len(GAP_MEMORY_STORAGE) :
          GAP_MEMORY_STORAGE[i] # Sentinel =>
              \E h \in LiveHandles : h.pos = i

\* a handle was just given an index that a finalizer had released, while
\* another handle is alive
C3_Witness ==
    /\ pc = "returned"
    /\ result.k = "JuliaObj"
    /\ Len(entry.ints) >= 2
    /\ Cardinality(LiveHandles) >= 2

\* C4.  Free-list non-emptiness: GAP_MEMORY_STORAGE_INTS is non-empty whenever
\* get_next_julia_position is not between its pop and its replacing push; so
\* it is non-empty when the function has returned, and a pop never runs on an
\* empty list.
C4_FreeListNonEmpty ==
    /\ pc # "segfault"
    /\ pc \notin {"length", "push_storage", "push_ints"} =>
          GAP_MEMORY_STORAGE_INTS # <<>>

\* get_next_julia_position has returned after popping the last free index
C4_Witness ==
    /\ pc = "store"
    /\ Len(entry.ints) = 1
    /\ Len(GAP_MEMORY_STORAGE_INTS) = 1
    /\ julia_objs # EmptyBag

\* C5 as stated.  Every index in the free list is an existing position of
\* storage whose entry is the sentinel.
C5_FreeIndicesAreEmptySlots ==
    \A j \in 1..Len(GAP_MEMORY_STORAGE_INTS) :
        /\ GAP_MEMORY_STORAGE_INTS[j] \in 1..Len(GAP_MEMORY_STORAGE)
        /\ GAP_MEMORY_STORAGE[GAP_MEMORY_STORAGE_INTS[j]] = Sentinel

\* C5.  Every index in the free list except the bottom one is an existing
\* position of storage whose entry is the sentinel; the bottom one is
\* length(storage) + 1, a position that does not exist yet.
C5_FreeIndicesAboveBottomAreEmptySlots ==
    /\ GAP_MEMORY_STORAGE_INTS # <<>> =>
          GAP_MEMORY_STORAGE_INTS[1] = Len(GAP_MEMORY_STORAGE) + 1
    /\ \A j \in 2..Len(GAP_MEMORY_STORAGE_INTS) :
          /\ GAP_MEMORY_STORAGE_INTS[j] \in 1..Len(GAP_MEMORY_STORAGE)
          /\ GAP_MEMORY_STORAGE[GAP_MEMORY_STORAGE_INTS[j]] = Sentinel

\* a released index waits in the free list while another handle is alive
C5_Witness ==
    /\ Len(GAP_MEMORY_STORAGE_INTS) >= 2
    /\ \E h \in LiveHandles : h.obj # Sentinel

\* what get_next_julia_position did, seen when it returns: the popped index is
\* returned; if the pop emptied the list, storage got one more sentinel and
\* the list holds the one index pushed; otherwise both are as the pop left them
GrowthStep(pushed) ==
    pc = "store" =>
        /\ position_jl = Last(entry.ints)
        /\ IF Front(entry.ints) = <<>>
           THEN /\ GAP_MEMORY_STORAGE = Append(entry.storage, Sentinel)
                /\ GAP_MEMORY_STORAGE_INTS = <<pushed>>
           ELSE /\ GAP_MEMORY_STORAGE = entry.storage
                /\ GAP_MEMORY_STORAGE_INTS = Front(entry.ints)

\* C6 as stated.  The index pushed as replacement is the new length of storage.
C6_GrowthPushesNewLength == GrowthStep(Len(GAP_MEMORY_STORAGE))

\* C6.  The index pushed as replacement is the new length of storage plus
\* one, which is the popped index plus one.
C6_GrowthPushesNewLengthPlusOne ==
    /\ GrowthStep(Len(GAP_MEMORY_STORAGE) + 1)
    /\ GrowthStep(position + 1)

\* get_next_julia_position has returned after growing a storage that already
\* had a slot
C6_Witness ==
    /\ pc = "store"
    /\ Len(entry.ints) = 1
    /\ Len(entry.storage) >= 1
    /\ Len(GAP_MEMORY_STORAGE) = Len(entry.storage) + 1

(***************************************************************************)
(* Properties of the converters.                                            *)
(***************************************************************************)
\* the host values the round trip is claimed for
RECURSIVE RoundTripValue(_)
RoundTripValue(obj) ==
    \/ obj.k \in {"IntObj", "MacFloat", "HString", "True", "False"}
    \/ /\ obj.k = "PList"
       /\ \A i \in 1..Len(obj.v) : RoundTripValue(obj.v[i])

\* C7.  Round trip: unboxing the guest value made by boxing a small integer,
\* float, string, boolean or a list of such values (nested to any depth)
\* gives back an equal host value.
C7_RoundTrip ==
    (pc = "done" /\ arg # NoArg /\ RoundTripValue(arg)) => result = arg

\* a host value with a part JuliaBox_internal has no case for
RECURSIVE HostUnsupported(_)
HostUnsupported(obj) ==
    IF obj.k = "PList" THEN \E i \in 1..Len(obj.v) : HostUnsupported(obj.v[i])
    ELSE obj.k \notin {"IntObj", "MacFloat", "HString", "True", "False",
                       "Perm2", "Perm4"}

\* C8.  Unsupported-type signalling: when the value given to JuliaBox has an
\* unsupported part, at the top level or at any depth of a list, JuliaBox
\* returns fail and creates no value handle.
C8_UnsupportedReturnsFail ==
    (op = "JuliaBox" /\ HostUnsupported(arg)) =>
        /\ pc \in {"returned", "idle"}
        /\ pc = "returned" => result = Fail

\* C9.  Boxing an unsupported top-level host value makes JuliaBox return fail
\* and leaves the anchor table unchanged: storage, the free list and the set
\* of value handles are as before the call.
C9_UnsupportedTopLevelLeavesTable ==
    [][(pc = "idle" /\ op' = "JuliaBox" /\ arg' = BigInt) =>
          /\ pc' = "returned"
          /\ result' = Fail
          /\ UNCHANGED <<GAP_MEMORY_STORAGE, GAP_MEMORY_STORAGE_INTS,
                         julia_objs, o>>]_vars

\* JuliaBox of a large integer has returned, with handles alive
C9_Witness ==
    /\ pc = "returned"
    /\ op = "JuliaBox"
    /\ arg = BigInt
    /\ result = Fail
    /\ julia_objs # EmptyBag

\* the number a guest integer stands for, as a 65-bit two's complement number
GuestNumber(x) ==
    IF x.k \in SignedKinds THEN SignExtend(x.v, 65) ELSE ZeroExtend(x.v, 65)

\* C10.  Unboxing a guest integer of any signed or unsigned type of 8, 16, 32
\* or 64 bits gives a host integer with the same numeric value.
C10_UnboxIntegerKeepsValue ==
    (pc = "done" /\ arg = NoArg /\ C.k \in IntKinds) =>
        /\ result.k = "IntObj"
        /\ SignExtend(INT_INTOBJ(result.v), 65) = GuestNumber(C)

(***************************************************************************)
(* Properties of the call surface and of the finalizer.                     *)
(***************************************************************************)
\* C11.  Eval-absence: when the evaluated expression gives the guest nothing
\* value, JuliaEvalString returns the Obj 0 in one step that leaves storage,
\* the free list and the value handles unchanged; when it gives any other
\* value, NewJuliaObj is entered with that value, no step of the call but its
\* last adds a handle, and the last adds exactly one, whose slot holds the
\* value.
C11_EvalAbsence ==
    [][/\ (pc = "idle" /\ op' = "JuliaEvalString" /\ arg'.v = JlNothing) =>
              /\ pc' = "returned"
              /\ result' = NullObj
              /\ UNCHANGED <<GAP_MEMORY_STORAGE, GAP_MEMORY_STORAGE_INTS,
                             julia_objs, o>>
       /\ (pc = "idle" /\ op' = "JuliaEvalString" /\ arg'.v # JlNothing) =>
              /\ pc' = "NewBag"
              /\ C' = arg'.v
              /\ UNCHANGED <<GAP_MEMORY_STORAGE, GAP_MEMORY_STORAGE_INTS,
                             julia_objs, o>>
       /\ (op = "JuliaEvalString" /\ pc' = "returned" /\ pc # "idle") =>
              /\ arg.v \notin {JlNothing, JlNull}
              /\ result' = JuliaObj(NewBag(arg.v, position_jl))
              /\ julia_objs' = julia_objs (+) SetToBag({result'.v})
              /\ position_jl \in 1..Len(GAP_MEMORY_STORAGE')
              /\ GAP_MEMORY_STORAGE'[position_jl] = arg.v
       /\ (op = "JuliaEvalString" /\ pc' # "returned") =>
              BagCardinality(julia_objs') <= BagCardinality(julia_objs)
      ]_vars

\* JuliaEvalString has returned the Obj 0 for an expression that gave
\* nothing, while a value handle is alive
C11_Witness ==
    /\ pc = "returned"
    /\ op = "JuliaEvalString"
    /\ arg = GuestExpr(JlNothing)
    /\ result = NullObj
    /\ julia_objs # EmptyBag

\* C12.  Finalizer interleaving: a run of JuliaObjFreeFunc for a handle A, at
\* whatever host allocation point, resets the entry at A's index to the
\* sentinel, pushes A's index onto the free list and changes nothing else:
\* every other entry of storage, every other handle and the call in progress
\* are as before, and every remaining handle is still bound.  A handle B whose
\* creation the finalizer ran inside of is returned with an index no other
\* live handle holds, bound to B's value.
C12_FinalizerInterleaving ==
    [][/\ \A A \in LiveHandles :
              julia_objs' = julia_objs (-) SetToBag({A}) =>
                  /\ Len(GAP_MEMORY_STORAGE') = Len(GAP_MEMORY_STORAGE)
                  /\ GAP_MEMORY_STORAGE'[A.pos] = Sentinel
                  /\ \A i \in 1..Len(GAP_MEMORY_STORAGE) \ {A.pos} :
                        GAP_MEMORY_STORAGE'[i] = GAP_MEMORY_STORAGE[i]
                  /\ GAP_MEMORY_STORAGE_INTS' =
                        Append(GAP_MEMORY_STORAGE_INTS, A.pos)
                  /\ UNCHANGED <<pc, op, arg, result, C, o, position_jl,
                                 position>>
                  /\ \A h \in BagToSet(julia_objs') :
                        /\ h.pos # A.pos
                        /\ GAP_MEMORY_STORAGE'[h.pos] = h.obj
       /\ (pc = "setindex" /\ pc' = "returned") =>
              LET B == result'.v
              IN  /\ B = NewBag(C, position_jl)
                  /\ CopiesIn(B, julia_objs') = 1
                  /\ GAP_MEMORY_STORAGE'[B.pos] = C
                  /\ \A h \in LiveHandles : h.pos # B.pos
      ]_vars

\* a finalizer has run inside the NewBag of the handle under creation (only
\* there is the value in flight exposed to the guest calls of a finalizer),
\* while another handle is alive
C12_Witness ==
    /\ pc = "NewBag"
    /\ C \in collected
    /\ Len(GAP_MEMORY_STORAGE_INTS) >= 2
    /\ julia_objs # EmptyBag

\* C13.  The length of storage never decreases, and a release neither
\* shortens storage nor moves or changes the entry of any other index: the
\* index of every handle that stays alive is still a position of storage and
\* still holds that handle's value.
C13_StorageOnlyGrows ==
    [][/\ Len(GAP_MEMORY_STORAGE') >= Len(GAP_MEMORY_STORAGE)
       /\ \A h \in LiveHandles \cap BagToSet(julia_objs') :
              /\ h.pos \in 1..Len(GAP_MEMORY_STORAGE')
              /\ GAP_MEMORY_STORAGE'[h.pos] = GAP_MEMORY_STORAGE[h.pos]
       /\ \A A \in LiveHandles :
              julia_objs' = julia_objs (-) SetToBag({A}) =>
                  /\ SubSeq(GAP_MEMORY_STORAGE', 1, A.pos - 1) =
                     SubSeq(GAP_MEMORY_STORAGE, 1, A.pos - 1)
                  /\ SubSeq(GAP_MEMORY_STORAGE', A.pos + 1,
                            Len(GAP_MEMORY_STORAGE')) =
                     SubSeq(GAP_MEMORY_STORAGE, A.pos + 1,
                            Len(GAP_MEMORY_STORAGE))
      ]_vars

\* an index was released while a handle with a higher index stays alive
C13_Witness ==
    /\ pc = "idle"
    /\ released # <<>>
    /\ \E h \in LiveHandles : h.pos > Last(released)
    /\ Len(GAP_MEMORY_STORAGE) >= 2

\* C14.  JuliaSetVal bypasses the anchor table whatever the name: it returns
\* the Obj 0 in one step that leaves storage, the free list and the value
\* handles unchanged and the handle's slot bound; and afterwards
\* get_next_julia_position still finds the free list to pop from, and grows
\* storage exactly when the pop has emptied that list.
C14_SetValBypassesAnchorTable ==
    [][/\ (pc = "idle" /\ op' = "JuliaSetVal") =>
              /\ pc' = "returned"
              /\ result' = NullObj
              /\ UNCHANGED <<GAP_MEMORY_STORAGE, GAP_MEMORY_STORAGE_INTS,
                             julia_objs, o>>
              /\ \A h \in Range(arg'.v) :
                    /\ h \in BagToSet(julia_objs')
                    /\ GAP_MEMORY_STORAGE'[h.pos] = h.obj
       /\ pc = "pop" => pc' # "segfault"
       /\ pc = "length" =>
              /\ pc' # "segfault"
              /\ pc' = "push_storage" <=> GAP_MEMORY_STORAGE_INTS = <<>>
      ]_vars

CallOps ==
    {"JuliaCallFunc0Arg", "JuliaCallFunc1Arg", "JuliaCallFunc2Arg",
     "JuliaCallFunc3Arg"}

\* C15.  A call helper whose guest call returns a value adds exactly one
\* value handle, in its last step and in no other, with an index none of the
\* argument handles has and the entry at that index holding the result; at
\* every step of the call each argument handle is alive with its entry
\* holding its value, also when the result is the value of an argument; and
\* finalizing a handle leaves the entry of every other handle holding the
\* same guest value as it was.
C15_CallAddsOneHandle ==
    [][/\ (op \in CallOps /\ pc = "setindex" /\ pc' = "returned") =>
              /\ result' = JuliaObj(NewBag(C, position_jl))
              /\ julia_objs' = julia_objs (+) SetToBag({result'.v})
              /\ position_jl \in 1..Len(GAP_MEMORY_STORAGE')
              /\ GAP_MEMORY_STORAGE'[position_jl] = C
              /\ \A a \in Range(arg.v) : a.pos # position_jl
       /\ (op \in CallOps /\ pc' # "returned") =>
              BagCardinality(julia_objs') <= BagCardinality(julia_objs)
       /\ (op \in CallOps \/ op' \in CallOps) =>
              \A a \in IF op \in CallOps THEN Range(arg.v) ELSE Range(arg'.v) :
                  /\ a \in BagToSet(julia_objs')
                  /\ a.pos \in 1..Len(GAP_MEMORY_STORAGE')
                  /\ GAP_MEMORY_STORAGE'[a.pos] = a.obj
       /\ \A A \in LiveHandles :
              julia_objs' = julia_objs (-) SetToBag({A}) =>
                  \A h \in BagToSet(julia_objs') :
                      h.obj = A.obj => GAP_MEMORY_STORAGE'[h.pos] = h.obj
      ]_vars

\* a call helper has returned a handle of the very value of its argument:
\* the value is in two slots
C15_Witness ==
    /\ pc = "returned"
    /\ op = "JuliaCallFunc1Arg"
    /\ result.k = "JuliaObj"
    /\ result.v.obj = arg.v[1].obj
    /\ result.v.pos # arg.v[1].pos
    /\ GAP_MEMORY_STORAGE[result.v.pos] = GAP_MEMORY_STORAGE[arg.v[1].pos]

\* C16.  Conversion anchors no intermediate value.  The recursive box of
\* JuliaBox runs in one step that leaves storage, the free list and the
\* handles unchanged; the NewJuliaObj that follows takes exactly one index
\* off the free list, writes the root guest value at that index and no other
\* entry of storage, and adds one handle.  JuliaUnbox returns (or ends in the
\* guest's exception) in one step that leaves storage, the free list and the
\* handles unchanged.
C16_ConversionAnchorsRootOnly ==
    [][/\ (pc = "idle" /\ op' = "JuliaBox") =>
              /\ UNCHANGED <<GAP_MEMORY_STORAGE, GAP_MEMORY_STORAGE_INTS,
                             julia_objs, o>>
              /\ pc' = "NewBag" => C' = JuliaBox_internal(arg')
       /\ (op = "JuliaBox" /\ pc = "setindex" /\ pc' = "returned") =>
              /\ C = JuliaBox_internal(arg)
              /\ julia_objs' = julia_objs (+) SetToBag({NewBag(C, position_jl)})
              /\ GAP_MEMORY_STORAGE'[position_jl] = C
              /\ \A i \in 1..Len(GAP_MEMORY_STORAGE') \ {position_jl} :
                    /\ i \in 1..Len(entry.storage)
                    /\ GAP_MEMORY_STORAGE'[i] = entry.storage[i]
              /\ Range(entry.ints) \ Range(GAP_MEMORY_STORAGE_INTS') =
                    {position_jl}
              /\ Len(GAP_MEMORY_STORAGE_INTS') =
                    IF Len(entry.ints) = 1 THEN 1 ELSE Len(entry.ints) - 1
       /\ (pc = "idle" /\ op' = "JuliaUnbox") =>
              /\ pc' \in {"returned", "crash"}
              /\ UNCHANGED <<GAP_MEMORY_STORAGE, GAP_MEMORY_STORAGE_INTS,
                             julia_objs, o>>
      ]_vars

\* JuliaBox of a list with a nested list has returned a handle, with another
\* slot in use
C16_Witness ==
    /\ pc = "returned"
    /\ op = "JuliaBox"
    /\ arg = PList(<<True, PList(<<False>>)>>)
    /\ result.k = "JuliaObj"
    /\ Len(GAP_MEMORY_STORAGE) >= 2
    /\ Cardinality(Range(GAP_MEMORY_STORAGE)) >= 2

\* C17.  Every index get_next_julia_position returns is a position of
\* storage when it is returned, so the bind of NewJuliaObj writes inside
\* storage; and the index of every live handle is a position of storage, so
\* the reset of JuliaObjFreeFunc writes inside storage.
C17_IndexWithinStorage ==
    /\ pc \in {"store", "setindex"} =>
          position_jl \in 1..Len(GAP_MEMORY_STORAGE)
    /\ o.pos # 0 => o.pos \in 1..Len(GAP_MEMORY_STORAGE)
    /\ \A h \in LiveHandles : h.pos \in 1..Len(GAP_MEMORY_STORAGE)

\* get_next_julia_position returns the index of the slot it has just added,
\* while handles whose indices were handed out earlier are alive
C17_Witness ==
    /\ pc = "store"
    /\ position_jl = Len(entry.storage) + 1
    /\ position_jl = Len(GAP_MEMORY_STORAGE)
    /\ BagCardinality(julia_objs) >= 2

\* C18.  Slots do not leak: whenever no creation is in progress the length of
\* storage is the largest number of value handles that were alive at one
\* time; and when storage has just grown, every slot it had before is held by
\* a live handle.
C18_NoSlotLeak ==
    /\ pc \in {"idle", "returned"} => Len(GAP_MEMORY_STORAGE) = peak
    /\ pc = "push_ints" =>
          /\ Len(entry.storage) = BagCardinality(julia_objs)
          /\ \A i \in 1..Len(entry.storage) :
                \E h \in LiveHandles : h.pos = i

\* the peak was reached earlier: fewer handles are alive now, freed indices
\* wait, and a creation has just reused one without growing storage
C18_Witness ==
    /\ pc = "returned"
    /\ result.k = "JuliaObj"
    /\ peak >= 2
    /\ BagCardinality(julia_objs) < peak
    /\ Len(GAP_MEMORY_STORAGE) = Len(entry.storage)

\* C19.  Reuse is last-released-first: the index get_next_julia_position has
\* popped is the most recently released index not handed out since, if there
\* is one, and otherwise the never-used index length(storage) + 1; the free
\* list is that never-used index at the bottom with the waiting released
\* indices above it in the order of their release.
C19_LastReleasedFirst ==
    /\ pc \in {"length", "push_storage", "push_ints", "store", "setindex"} =>
          /\ position_jl = IF entry.released # <<>> THEN Last(entry.released)
                           ELSE Len(entry.storage) + 1
          /\ released = IF entry.released # <<>> THEN Front(entry.released)
                        ELSE <<>>
    /\ GAP_MEMORY_STORAGE_INTS # <<>> =>
          /\ GAP_MEMORY_STORAGE_INTS[1] = Len(GAP_MEMORY_STORAGE) + 1
          /\ GAP_MEMORY_STORAGE_INTS[1] \notin Range(released)
          /\ SubSeq(GAP_MEMORY_STORAGE_INTS, 2,
                    Len(GAP_MEMORY_STORAGE_INTS)) = released

\* two indices were released, the lower one last, and the pop has returned
\* that one
C19_Witness ==
    /\ pc = "length"
    /\ Len(entry.released) >= 2
    /\ Last(entry.released) < entry.released[1]
    /\ position_jl = Last(entry.released)

=============================================================================
